---- MODULE Spec2Model ----
(***************************************************************************)
(* Ghost Query: the proxy server (proxy-server/api/index.js) and the       *)
(* desktop client's stream consumer (App.tsx).                             *)
(*                                                                         *)
(* Three specifications share this module:                                 *)
(*   SpecHandler  one request inside a provider route handler: validation, *)
(*                the upstream call, the response writes, the timers and   *)
(*                the upstream stream callbacks;                           *)
(*   SpecQuota    the middleware chain generalRateLimit -> provider limit  *)
(*                -> handler, for concurrent requests of several clients;  *)
(*   SpecClient   the React state of App and the Tauri event listeners.    *)
(* Each specification leaves the variables of the other two unchanged.     *)
(***************************************************************************)
EXTENDS Integers, Sequences, FiniteSets, TLC

(***************************************************************************)
(* Bounds of the model.                                                    *)
(***************************************************************************)
\* longest upstream text (in characters) the Gemini adapter is given
MaxTextLen == 3
\* number of 'data' callbacks the upstream Perplexity stream may deliver
MaxDataEvents == 2

(***************************************************************************)
(* Texts are sequences of characters, so that split and concatenation are  *)
(* computed and not assumed.                                               *)
(***************************************************************************)
Chars == {"a", " "}

RECURSIVE SeqsUpTo(_, _)
SeqsUpTo(S, n) ==
  IF n = 0 THEN {<<>>}
  ELSE LET shorter == SeqsUpTo(S, n - 1)
       IN  shorter \cup {Append(s, c) : s \in {t \in shorter : Len(t) = n - 1}, c \in S}

Texts == SeqsUpTo(Chars, MaxTextLen)

\* String.prototype.split(" "): the pieces between single spaces;
\* adjacent spaces give empty pieces and "" gives one empty piece.
RECURSIVE SplitFrom(_, _, _)
SplitFrom(text, i, cur) ==
  IF i > Len(text) THEN <<cur>>
  ELSE IF text[i] = " " THEN <<cur>> \o SplitFrom(text, i + 1, <<>>)
  ELSE SplitFrom(text, i + 1, Append(cur, text[i]))

\* a split that drops the empty pieces, as split(/\s+/) or a filter would
SplitDroppingEmpty(text) ==
  LET all == SplitFrom(text, 1, <<>>)
      keep == SelectSeq(all, LAMBDA w : w # <<>>)
  IN  IF keep = <<>> THEN <<<<>>>> ELSE keep

Split(text) == SplitFrom(text, 1, <<>>)

RECURSIVE Concat(_)
Concat(ss) == IF ss = <<>> THEN <<>> ELSE Head(ss) \o Concat(Tail(ss))

(***************************************************************************)
(* Request bodies.  A field of req.body is absent ("undefined"), the       *)
(* empty string, or a non-empty string.                                    *)
(***************************************************************************)
FieldValues == {"undefined", "", "m"}

\* JavaScript's !x for the field values above
Falsy(x) == x \in {"undefined", ""}

\* the check written with && in place of ||
BothFieldsMissing(m, p) == Falsy(m) /\ Falsy(p)

\* if (!model || !prompt)
RequiredFieldsMissing(m, p) == Falsy(m) \/ Falsy(p)

Routes == {"gemini", "perplexity"}

\* the bodies posted in SpecQuota: a complete one, one without model, one
\* with an empty prompt
Bodies == {[model |-> "m", prompt |-> "m"],
           [model |-> "undefined", prompt |-> "m"],
           [model |-> "m", prompt |-> ""]}

(***************************************************************************)
(* The response object.  written: the SSE records written with res.write,  *)
(* in order; json: the body of a res.json call; late: writes, ends or json *)
(* calls attempted after the response was ended.                           *)
(***************************************************************************)
NoJson == [error |-> "none", details |-> "none", success |-> FALSE, content |-> <<>>]

FreshRes == [status |-> 200, written |-> <<>>, json |-> NoJson,
             ended |-> FALSE, late |-> 0]

ChunkEvent(c) == [type |-> "chunk", content |-> c, msg |-> ""]
DoneEvent == [type |-> "done", content |-> <<>>, msg |-> ""]
ErrorEvent(m) == [type |-> "error", content |-> <<>>, msg |-> m]

\* res.write(record)
Write(r, ev) ==
  IF r.ended THEN [r EXCEPT !.late = @ + 1]
  ELSE [r EXCEPT !.written = Append(@, ev)]

\* res.end()
End(r) == IF r.ended THEN [r EXCEPT !.late = @ + 1] ELSE [r EXCEPT !.ended = TRUE]

\* res.status(code).json(body)
Json(r, code, body) ==
  IF r.ended THEN [r EXCEPT !.late = @ + 1]
  ELSE [r EXCEPT !.status = code, !.json = body, !.ended = TRUE]

ErrorBody(msg, det) == [error |-> msg, details |-> det, success |-> FALSE, content |-> <<>>]
SuccessBody(c) == [error |-> "none", details |-> "none", success |-> TRUE, content |-> c]

VARIABLES
  \* ---- one request in a provider route handler ----
  route,            \* which route the request was posted to
  model, prompt,    \* req.body.model, req.body.prompt
  stream,           \* req.body.stream (default false)
  apiKey,           \* process.env.<PROVIDER>_API_KEY is set
  forwardsRejections, \* the Express build passes a rejected async handler to next(err)
  pc,               \* position of the handler
  upstreamCalls,    \* axios.post calls issued for the request
  upstreamOpen,     \* the upstream connection is open
  failure,          \* how the upstream call failed: "none", "429", "400", "500", "timeout"
  content,          \* the text the Gemini upstream returned
  words, index,     \* sendChunk's closure
  dataEvents,       \* 'data' callbacks delivered so far by the upstream stream
  chunk,            \* the lines of the last 'data' callback
  res,              \* the response
  clientConnected,  \* the caller is still connected
  chunksAfterClose  \* content chunks written after the caller went away

handlerVars == <<route, model, prompt, stream, apiKey, forwardsRejections, pc,
                 upstreamCalls, upstreamOpen, failure, content, words, index,
                 dataEvents, chunk, res, clientConnected, chunksAfterClose>>

VARIABLES
  \* ---- the middleware chain in front of the route handlers ----
  hits,       \* per limiter and key: requests counted in the key's current window
  decisions,  \* per limiter and key: the admissions decided in the current window, in order
  slots,      \* requests between the general limiter and the provider limiter
  last        \* how the most recently answered request was answered

quotaVars == <<hits, decisions, slots, last>>

VARIABLES
  \* ---- the client: React state of App ----
  message,      \* the input text
  isLoading,
  response,     \* the response buffer: the chunk payloads appended so far
  error,
  historyLoads, \* calls of loadConversationHistory made by the listeners
  submits,      \* requests started with ask_ai_stream so far
  submitIgnored, \* handleSubmit has been called and returned without doing anything
  stopPending,  \* handleStop is waiting for invoke("stop_streaming")
  cancelled,    \* the buffer when the last local cancel took effect, if one did
  \* ---- the Tauri backend and its channel to the webview ----
  backend,      \* per request: state of its stream and chunks emitted
  stopCmd,      \* a stop_streaming command the backend has not handled yet
  channel       \* events and invoke results on their way to the webview, in order

clientVars == <<message, isLoading, response, error, historyLoads, submits,
                submitIgnored, stopPending, cancelled, backend, stopCmd, channel>>

VARIABLES
  \* ---- the client: rendering of a response text ----
  rawText,      \* the text given to formatResponse
  display,      \* what formatResponse returned, <<>> before the first call
  renders,      \* calls of formatResponse so far, each on the result of the one before
  threw         \* a call of formatResponse ended with an exception

renderVars == <<rawText, display, renders, threw>>

vars == <<handlerVars, quotaVars, clientVars, renderVars>>

\* what the steps of a route handler leave alone
notHandler == <<quotaVars, clientVars, renderVars>>

(***************************************************************************)
(* The rate limiters.  createRateLimit(windowMs, max, message) builds one  *)
(* express-rate-limit middleware with its own in-memory store: per key a   *)
(* count of the requests of the current window; a request is counted, and  *)
(* answered 429 with the limiter's message when the count exceeds max.     *)
(* The limits of the source (100, 50 and 30 per 15 minutes) are scaled to  *)
(* the values below; the middleware reads max only in that comparison.     *)
(***************************************************************************)
GeneralMax == 2
GeminiMax == 1
PerplexityMax == 1

Limiters == {"general", "gemini", "perplexity"}

\* every limiter created with the general limit
MaxGeneralEverywhere(lim) == GeneralMax

\* the max each createRateLimit call passes
Max(lim) ==
  IF lim = "general" THEN GeneralMax
  ELSE IF lim = "gemini" THEN GeminiMax
  ELSE PerplexityMax

\* two clients behind one address that send different User-Agent headers
Clients == {[ip |-> "ip1", ua |-> "ua1"], [ip |-> "ip1", ua |-> "ua2"]}

\* a key that leaves the User-Agent out
KeyByIp(c) == <<c.ip, "">>

\* keyGenerator: (req) => `${req.ip}-${req.get("User-Agent")}`
KeyGenerator(c) == <<c.ip, c.ua>>

Keys == {KeyGenerator(c) : c \in Clients}

\* the middleware's test on the count after the increment
Allowed(lim, totalHits) == totalHits <= Max(lim)

\* the requests that may be between the two limiters at the same time
Slots == {"s1", "s2"}

\* a route registered with the other provider's limiter
GeminiLimiterOnEveryRoute(rt) == "gemini"

\* the provider limiter each route is registered with
RouteLimiter(rt) == rt

IdleSlot == [stage |-> "idle", route |-> "none", key |-> <<>>]

NoAnswer == [status |-> 0, by |-> "none", upstream |-> FALSE]

QuotaIdle ==
  /\ hits = [lim \in Limiters |-> [k \in Keys |-> 0]]
  /\ decisions = [lim \in Limiters |-> [k \in Keys |-> <<>>]]
  /\ slots = [s \in Slots |-> IdleSlot]
  /\ last = NoAnswer

(***************************************************************************)
(* The client.                                                             *)
(***************************************************************************)
\* chunks the backend emits per request
MaxChunks == 2

\* the requests one behaviour may start, numbered in the order of their submits
Sessions == {1, 2}

\* the input texts: empty, blank, and a question
Messages == {"", " ", "q"}

\* a test of the message without trim()
NotEmptyString(msg) == msg # ""

\* message.trim() is a non-empty string
NonBlank(msg) == msg \notin {"", " "}

NoCancel == [active |-> FALSE, buffer |-> <<>>]

RenderIdle ==
  /\ rawText = <<>>
  /\ display = <<>>
  /\ renders = 0
  /\ threw = FALSE

ClientIdle ==
  /\ message = ""
  /\ isLoading = FALSE
  /\ response = <<>>
  /\ error = ""
  /\ historyLoads = 0
  /\ submits = 0
  /\ submitIgnored = FALSE
  /\ stopPending = FALSE
  /\ cancelled = NoCancel
  /\ backend = [n \in Sessions |-> [state |-> "idle", sent |-> 0]]
  /\ stopCmd = FALSE
  /\ channel = <<>>

(***************************************************************************)
(* SpecHandler: one request that the limiters admitted, inside             *)
(* app.post("/api/gemini") or app.post("/api/perplexity").                 *)
(***************************************************************************)
MissingFieldsMsg == "Missing required fields: model and prompt are required"
KeyMissingMsg(rt) ==
  IF rt = "gemini" THEN "Gemini API key not configured"
  ELSE "Perplexity API key not configured"
NoResponseMsg(rt) ==
  IF rt = "gemini" THEN "No response from Gemini API"
  ELSE "No response from Perplexity API"
RequestFailedMsg(rt) ==
  IF rt = "gemini" THEN "Gemini API request failed"
  ELSE "Perplexity API request failed"
RateLimitedMsg(rt) ==
  IF rt = "gemini" THEN "Gemini API rate limit exceeded"
  ELSE "Perplexity API rate limit exceeded"
BadRequestMsg(rt) ==
  IF rt = "gemini" THEN "Invalid request to Gemini API"
  ELSE "Invalid request to Perplexity API"

\* the ways axios.post rejects: an HTTP error status, or no response within 30 s
Failures == {"429", "400", "500", "timeout"}

\* no request is in a handler
HandlerIdle ==
  /\ route = "gemini"
  /\ model = "undefined"
  /\ prompt = "undefined"
  /\ stream = FALSE
  /\ apiKey = FALSE
  /\ forwardsRejections = FALSE
  /\ pc = "idle"
  /\ upstreamCalls = 0
  /\ upstreamOpen = FALSE
  /\ failure = "none"
  /\ content = <<>>
  /\ words = <<>>
  /\ index = 0
  /\ dataEvents = 0
  /\ chunk = <<>>
  /\ res = FreshRes
  /\ clientConnected = TRUE
  /\ chunksAfterClose = 0

HandlerInit ==
  /\ route \in Routes
  /\ model \in FieldValues
  /\ prompt \in FieldValues
  /\ stream \in BOOLEAN
  /\ apiKey \in BOOLEAN
  /\ forwardsRejections \in BOOLEAN
  /\ pc = "received"
  /\ upstreamCalls = 0
  /\ upstreamOpen = FALSE
  /\ failure = "none"
  /\ content = <<>>
  /\ words = <<>>
  /\ index = 0
  /\ dataEvents = 0
  /\ chunk = <<>>
  /\ res = FreshRes
  /\ clientConnected = TRUE
  /\ chunksAfterClose = 0
  /\ QuotaIdle
  /\ ClientIdle
  /\ RenderIdle

\* content chunks among the records that a step appended to the response
NewChunks(old, new) ==
  Cardinality({i \in (Len(old.written) + 1)..Len(new.written) :
                 new.written[i].type = "chunk"})

Respond(r) ==
  /\ res' = r
  /\ chunksAfterClose' =
       IF clientConnected THEN chunksAfterClose
       ELSE chunksAfterClose + NewChunks(res, r)

\* the handler up to the upstream call: destructuring, the two early
\* returns, and axios.post
HandlerStart ==
  /\ pc = "received"
  /\ IF RequiredFieldsMissing(model, prompt)
       THEN /\ Respond(Json(res, 400, ErrorBody(MissingFieldsMsg, "none")))
            /\ pc' = "returned"
            /\ UNCHANGED <<upstreamCalls, upstreamOpen>>
     ELSE IF ~apiKey
       THEN /\ Respond(Json(res, 500, ErrorBody(KeyMissingMsg(route), "none")))
            /\ pc' = "returned"
            /\ UNCHANGED <<upstreamCalls, upstreamOpen>>
     ELSE /\ upstreamCalls' = upstreamCalls + 1
          /\ upstreamOpen' = TRUE
          /\ pc' = "awaiting"
          /\ UNCHANGED <<res, chunksAfterClose>>
  /\ UNCHANGED <<notHandler, route, model, prompt, stream, apiKey, forwardsRejections,
                 failure, content, words, index, dataEvents, chunk, clientConnected>>

\* one run of sendChunk: the next word, or [DONE] and res.end()
SendChunk(r, ws, i) ==
  IF i < Len(ws)
    THEN Write(r, ChunkEvent(ws[i + 1] \o (IF i < Len(ws) - 1 THEN <<" ">> ELSE <<>>)))
    ELSE End(Write(r, DoneEvent))

\* axios.post resolved on the Gemini route
GeminiRespond ==
  /\ pc = "awaiting"
  /\ route = "gemini"
  /\ \E candidates \in BOOLEAN, text \in Texts :
       /\ candidates \/ text = <<>>
       /\ upstreamOpen' = FALSE
       /\ IF stream
            THEN IF candidates
                   THEN /\ content' = text
                        /\ words' = Split(text)
                        /\ index' = 1
                        /\ Respond(SendChunk(res, Split(text), 0))
                        /\ pc' = "sending"
                   ELSE /\ Respond(End(Write(res, ErrorEvent(NoResponseMsg(route)))))
                        /\ pc' = "returned"
                        /\ UNCHANGED <<content, words, index>>
            ELSE /\ IF candidates
                      THEN /\ content' = text
                           /\ Respond(Json(res, 200, SuccessBody(text)))
                      ELSE /\ Respond(Json(res, 500, ErrorBody(NoResponseMsg(route), "none")))
                           /\ UNCHANGED content
                 /\ pc' = "returned"
                 /\ UNCHANGED <<words, index>>
  /\ UNCHANGED <<notHandler, route, model, prompt, stream, apiKey, forwardsRejections,
                 upstreamCalls, failure, dataEvents, chunk, clientConnected>>

\* the 50 ms timer fires and runs sendChunk again
SendChunkTimer ==
  /\ pc = "sending"
  /\ Respond(SendChunk(res, words, index))
  /\ IF index < Len(words)
       THEN /\ index' = index + 1
            /\ pc' = pc
       ELSE /\ index' = index
            /\ pc' = "returned"
  /\ UNCHANGED <<notHandler, route, model, prompt, stream, apiKey, forwardsRejections,
                 upstreamCalls, upstreamOpen, failure, content, words,
                 dataEvents, chunk, clientConnected>>

\* `stream` is declared with const inside the try block, so the name is not
\* in scope in the catch block that reads it
StreamInCatchScope == FALSE

\* the catch block's responses, as written
CatchResponse(r, rt, st, f) ==
  IF st THEN End(Write(r, ErrorEvent(RequestFailedMsg(rt))))
  ELSE IF f = "429" THEN Json(r, 429, ErrorBody(RateLimitedMsg(rt), "none"))
  ELSE IF f = "400" THEN Json(r, 400, ErrorBody(BadRequestMsg(rt), "detail"))
  ELSE Json(r, 500, ErrorBody(RequestFailedMsg(rt), "detail"))

\* axios.post rejected (HTTP error status or timeout): the catch block runs.
\* Its `if (stream)` throws ReferenceError, so the async handler rejects;
\* what happens to the rejection depends on the Express build.
UpstreamFail ==
  /\ pc = "awaiting"
  /\ \E f \in Failures : failure' = f
  /\ upstreamOpen' = FALSE
  /\ IF StreamInCatchScope
       THEN /\ Respond(CatchResponse(res, route, stream, failure'))
            /\ pc' = "returned"
       ELSE /\ pc' = IF forwardsRejections THEN "errorMiddleware" ELSE "unhandled"
            /\ UNCHANGED <<res, chunksAfterClose>>
  /\ UNCHANGED <<notHandler, route, model, prompt, stream, apiKey, forwardsRejections,
                 upstreamCalls, content, words, index, dataEvents, chunk, clientConnected>>

\* app.use((error, req, res, next) => ...)
ErrorMiddleware ==
  /\ pc = "errorMiddleware"
  /\ Respond(Json(res, 500, ErrorBody("Internal server error", "none")))
  /\ pc' = "returned"
  /\ UNCHANGED <<notHandler, route, model, prompt, stream, apiKey, forwardsRejections,
                 upstreamCalls, upstreamOpen, failure, content, words, index,
                 dataEvents, chunk, clientConnected>>

\* axios.post resolved on the Perplexity route
PerplexityRespond ==
  /\ pc = "awaiting"
  /\ route = "perplexity"
  /\ IF stream
       THEN \* the three listeners are attached to response.data
            /\ pc' = "piping"
            /\ UNCHANGED <<upstreamOpen, content, res, chunksAfterClose>>
       ELSE /\ \E choices \in BOOLEAN, text \in Texts :
                 /\ choices \/ text = <<>>
                 /\ IF choices
                      THEN /\ content' = text
                           /\ Respond(Json(res, 200, SuccessBody(text)))
                      ELSE /\ Respond(Json(res, 500, ErrorBody(NoResponseMsg(route), "none")))
                           /\ UNCHANGED content
            /\ upstreamOpen' = FALSE
            /\ pc' = "returned"
  /\ UNCHANGED <<notHandler, route, model, prompt, stream, apiKey, forwardsRejections,
                 upstreamCalls, failure, words, index, dataEvents, chunk, clientConnected>>

(***************************************************************************)
(* The upstream Perplexity stream.  A 'data' callback carries lines; a     *)
(* line is a delta record, the [DONE] sentinel, a data record that is not  *)
(* valid JSON, a data record without delta content, or a line that is not  *)
(* a data record (blank lines included).  The upstream bytes are cut into  *)
(* callbacks anywhere: a callback may end inside a delta record, and then  *)
(* its last line is the head of the record ("data: " and the beginning of  *)
(* the JSON text) and the first line of the next callback is its tail.     *)
(***************************************************************************)
Lines == {[kind |-> "delta", content |-> <<"a">>],
          [kind |-> "done", content |-> <<>>],
          [kind |-> "badjson", content |-> <<>>],
          [kind |-> "nodelta", content |-> <<>>],
          [kind |-> "other", content |-> <<>>],
          [kind |-> "head", content |-> <<>>],
          [kind |-> "tail", content |-> <<"a">>]}

\* lines per 'data' callback
MaxLines == 2

DataChunks == SeqsUpTo(Lines, MaxLines) \ {<<>>}

\* the lines of a callback that can follow the callback with lines prev: a
\* head is a last line, a tail is the first line after a head
FollowsOn(prev, lines) ==
  /\ \A i \in 1..Len(lines) :
       /\ lines[i].kind = "head" => i = Len(lines)
       /\ lines[i].kind = "tail" => i = 1
  /\ lines[1].kind = "tail" <=> (prev # <<>> /\ prev[Len(prev)].kind = "head")

\* line.trim() && line.startsWith("data: ")
IsDataLine(l) == l.kind \in {"delta", "done", "badjson", "nodelta", "head"}

\* a loop whose try block would enclose the loop: it stops at the first
\* record that does not parse
RECURSIVE ProcessLinesUntilBadJson(_, _)
ProcessLinesUntilBadJson(r, lines) ==
  IF lines = <<>> THEN r
  ELSE LET l == Head(lines) IN
       IF ~IsDataLine(l) THEN ProcessLinesUntilBadJson(r, Tail(lines))
       ELSE IF l.kind = "done" THEN End(Write(r, DoneEvent))
       ELSE IF l.kind = "delta"
              THEN ProcessLinesUntilBadJson(Write(r, ChunkEvent(l.content)), Tail(lines))
       ELSE IF l.kind = "nodelta" THEN ProcessLinesUntilBadJson(r, Tail(lines))
       ELSE r

\* the for loop of the 'data' listener, with its return at [DONE]
RECURSIVE ProcessLines(_, _)
ProcessLines(r, lines) ==
  IF lines = <<>> THEN r
  ELSE LET l == Head(lines) IN
       IF ~IsDataLine(l) THEN ProcessLines(r, Tail(lines))
       ELSE IF l.kind = "done" THEN End(Write(r, DoneEvent))
       ELSE IF l.kind = "delta"
              THEN ProcessLines(Write(r, ChunkEvent(l.content)), Tail(lines))
       ELSE ProcessLines(r, Tail(lines))

\* response.data.on("data", ...)
OnData ==
  /\ pc = "piping"
  /\ dataEvents < MaxDataEvents
  /\ \E lines \in DataChunks :
       /\ FollowsOn(chunk, lines)
       /\ chunk' = lines
       /\ Respond(ProcessLines(res, lines))
  /\ dataEvents' = dataEvents + 1
  /\ UNCHANGED <<notHandler, route, model, prompt, stream, apiKey, forwardsRejections, pc,
                 upstreamCalls, upstreamOpen, failure, content, words, index,
                 clientConnected>>

\* response.data.on("end", ...)
OnEnd ==
  /\ pc = "piping"
  /\ Respond(End(Write(res, DoneEvent)))
  /\ upstreamOpen' = FALSE
  /\ pc' = "returned"
  /\ UNCHANGED <<notHandler, route, model, prompt, stream, apiKey, forwardsRejections,
                 upstreamCalls, failure, content, words, index, dataEvents, chunk,
                 clientConnected>>

\* response.data.on("error", ...)
OnError ==
  /\ pc = "piping"
  /\ Respond(End(Write(res, ErrorEvent("Streaming error occurred"))))
  /\ upstreamOpen' = FALSE
  /\ pc' = "returned"
  /\ UNCHANGED <<notHandler, route, model, prompt, stream, apiKey, forwardsRejections,
                 upstreamCalls, failure, content, words, index, dataEvents, chunk,
                 clientConnected>>

\* the caller cancels: it closes its connection.  No listener of the server
\* is registered for it, so nothing else changes.
ClientDisconnect ==
  /\ clientConnected
  /\ stream
  /\ pc \in {"awaiting", "sending", "piping"}
  /\ ~res.ended
  /\ clientConnected' = FALSE
  /\ UNCHANGED <<notHandler, route, model, prompt, stream, apiKey, forwardsRejections, pc,
                 upstreamCalls, upstreamOpen, failure, content, words, index,
                 dataEvents, chunk, res, chunksAfterClose>>

HandlerNext ==
  \/ HandlerStart
  \/ GeminiRespond
  \/ SendChunkTimer
  \/ UpstreamFail
  \/ ErrorMiddleware
  \/ PerplexityRespond
  \/ OnData
  \/ OnEnd
  \/ OnError
  \/ ClientDisconnect

SpecHandler == HandlerInit /\ [][HandlerNext]_vars

(***************************************************************************)
(* SpecQuota: app.post(route, generalRateLimit, <provider>RateLimit,       *)
(* handler) for requests of the two clients.  A request is counted by the  *)
(* general limiter when it arrives; one that the general limiter admitted  *)
(* is then counted by the limiter of its route, and one that this limiter  *)
(* admitted enters the handler, which runs up to its upstream call.        *)
(***************************************************************************)
Count(lim, k) == hits[lim][k] + 1

\* the store counts the request and the middleware decides
Charge(lim, k) ==
  /\ hits' = [hits EXCEPT ![lim][k] = Count(lim, k)]
  /\ decisions' = [decisions EXCEPT ![lim][k] = Append(@, Allowed(lim, Count(lim, k)))]

\* the limiter's 429 response with its message
Denied(lim) == [status |-> 429, by |-> lim, upstream |-> FALSE]

\* the handler up to its first await: 400, 500, or the upstream call
Handled(m, p, key) ==
  IF RequiredFieldsMissing(m, p) THEN [status |-> 400, by |-> "handler", upstream |-> FALSE]
  ELSE IF ~key THEN [status |-> 500, by |-> "handler", upstream |-> FALSE]
  ELSE [status |-> 200, by |-> "handler", upstream |-> TRUE]

\* a chain in which the limiter of the route would run in front of the
\* general limiter: every arriving request is counted by both
ArriveRouteLimiterFirst(s, c, rt) ==
  LET k == KeyGenerator(c)
      lim == RouteLimiter(rt)
  IN
  /\ slots[s].stage = "idle"
  /\ hits["general"][k] <= GeneralMax
  /\ hits[lim][k] <= Max(lim)
  /\ hits' = [hits EXCEPT ![lim][k] = Count(lim, k),
                           !["general"][k] = Count("general", k)]
  /\ decisions' = [decisions EXCEPT
                     !["general"][k] = Append(@, Allowed("general", Count("general", k)))]
  /\ IF Allowed("general", Count("general", k))
       THEN /\ slots' = [slots EXCEPT ![s] = [stage |-> "provider", route |-> rt, key |-> k]]
            /\ UNCHANGED last
       ELSE /\ last' = Denied("general")
            /\ UNCHANGED slots
  /\ UNCHANGED <<handlerVars, clientVars, renderVars>>

\* a request of client c to route rt arrives and generalRateLimit runs
Arrive(s, c, rt) ==
  LET k == KeyGenerator(c) IN
  /\ slots[s].stage = "idle"
  /\ hits["general"][k] <= GeneralMax   \* the model counts one request beyond max
  /\ Charge("general", k)
  /\ IF Allowed("general", Count("general", k))
       THEN /\ slots' = [slots EXCEPT ![s] = [stage |-> "provider", route |-> rt, key |-> k]]
            /\ UNCHANGED last
       ELSE /\ last' = Denied("general")
            /\ UNCHANGED slots
  /\ UNCHANGED <<handlerVars, clientVars, renderVars>>

\* a chain in which the handler would validate before the limiter counts:
\* a request that the handler rejects leaves the counter as it is
ProviderCountingAccepted(s) ==
  LET lim == RouteLimiter(slots[s].route)
      k == slots[s].key
  IN
  /\ slots[s].stage = "provider"
  /\ hits[lim][k] <= Max(lim)
  /\ slots' = [slots EXCEPT ![s] = IdleSlot]
  /\ \E body \in Bodies, key \in BOOLEAN :
       IF Handled(body.model, body.prompt, key).upstream
         THEN /\ Charge(lim, k)
              /\ last' = IF Allowed(lim, Count(lim, k))
                           THEN Handled(body.model, body.prompt, key)
                           ELSE Denied(lim)
         ELSE /\ last' = Handled(body.model, body.prompt, key)
              /\ UNCHANGED <<hits, decisions>>
  /\ UNCHANGED <<handlerVars, clientVars, renderVars>>

\* the limiter of the request's route runs and, if it admits, the handler
Provider(s) ==
  LET lim == RouteLimiter(slots[s].route)
      k == slots[s].key
  IN
  /\ slots[s].stage = "provider"
  /\ hits[lim][k] <= Max(lim)
  /\ Charge(lim, k)
  /\ slots' = [slots EXCEPT ![s] = IdleSlot]
  /\ IF Allowed(lim, Count(lim, k))
       THEN \E body \in Bodies, key \in BOOLEAN :
              last' = Handled(body.model, body.prompt, key)
       ELSE last' = Denied(lim)
  /\ UNCHANGED <<handlerVars, clientVars, renderVars>>

\* windowMs has passed since the key's window in this limiter began
WindowElapse(lim, k) ==
  /\ hits[lim][k] > 0
  /\ hits' = [hits EXCEPT ![lim][k] = 0]
  /\ decisions' = [decisions EXCEPT ![lim][k] = <<>>]
  /\ UNCHANGED <<slots, last, handlerVars, clientVars, renderVars>>

QuotaInit ==
  /\ QuotaIdle
  /\ HandlerIdle
  /\ ClientIdle
  /\ RenderIdle

QuotaNext ==
  \/ \E s \in Slots, c \in Clients, rt \in Routes : Arrive(s, c, rt)
  \/ \E s \in Slots : Provider(s)
  \/ \E lim \in Limiters, k \in Keys : WindowElapse(lim, k)

SpecQuota == QuotaInit /\ [][QuotaNext]_vars

(***************************************************************************)
(* SpecClient: App's handlers and listeners, with the Tauri backend that   *)
(* serves ask_ai_stream and stop_streaming and emits the four events.      *)
(* The backend is not part of the sources at hand; it is modelled from the *)
(* specification: a stream emits chunks and then done or error, a stop     *)
(* request is best effort (the stream may emit further chunks before it    *)
(* notices the request and emits cancelled).                               *)
(***************************************************************************)
Msg(t, n, i) == [type |-> t, sid |-> n, i |-> i]

Emit(m) == channel' = Append(channel, m)

\* onChange of the input
SetMessage(v) ==
  /\ message # v
  /\ message' = v
  /\ UNCHANGED <<isLoading, response, error, historyLoads, submits, stopPending,
                 cancelled, backend, stopCmd, channel, submitIgnored, handlerVars, quotaVars, renderVars>>

\* a handleSubmit without setResponse("")
HandleSubmitKeepingResponse ==
  /\ (submits + 1) \in Sessions
  /\ IF NonBlank(message)
       THEN /\ isLoading' = TRUE
            /\ error' = ""
            /\ UNCHANGED response
            /\ submits' = submits + 1
            /\ backend' = [backend EXCEPT ![submits + 1].state = "streaming"]
            /\ cancelled' = NoCancel
            /\ UNCHANGED submitIgnored
       ELSE /\ submitIgnored' = TRUE
            /\ UNCHANGED <<isLoading, error, response, submits, backend, cancelled>>
  /\ UNCHANGED <<message, historyLoads, stopPending, stopCmd, channel,
                 handlerVars, quotaVars, renderVars>>

\* handleSubmit
HandleSubmit ==
  /\ (submits + 1) \in Sessions
  /\ IF NonBlank(message)
       THEN /\ isLoading' = TRUE
            /\ error' = ""
            /\ response' = <<>>
            /\ submits' = submits + 1
            /\ backend' = [backend EXCEPT ![submits + 1].state = "streaming"]
            /\ cancelled' = NoCancel
            /\ UNCHANGED submitIgnored
       ELSE /\ submitIgnored' = TRUE
            /\ UNCHANGED <<isLoading, error, response, submits, backend, cancelled>>
  /\ UNCHANGED <<message, historyLoads, stopPending, stopCmd, channel,
                 handlerVars, quotaVars, renderVars>>

\* handleStop up to its await
HandleStop ==
  /\ isLoading
  /\ ~stopPending
  /\ stopPending' = TRUE
  /\ stopCmd' = TRUE
  /\ UNCHANGED <<message, isLoading, response, error, historyLoads, submits,
                 cancelled, backend, channel, submitIgnored, handlerVars, quotaVars, renderVars>>

\* ---- the backend ----
BackendChunk(n) ==
  /\ backend[n].state \in {"streaming", "stopping"}
  /\ backend[n].sent < MaxChunks
  /\ backend' = [backend EXCEPT ![n].sent = @ + 1]
  /\ Emit(Msg("chunk", n, backend[n].sent + 1))
  /\ UNCHANGED <<message, isLoading, response, error, historyLoads, submits,
                 stopPending, cancelled, stopCmd, submitIgnored, handlerVars, quotaVars, renderVars>>

BackendDone(n) ==
  /\ backend[n].state = "streaming"
  /\ backend' = [backend EXCEPT ![n].state = "finished"]
  /\ Emit(Msg("done", n, 0))
  /\ UNCHANGED <<message, isLoading, response, error, historyLoads, submits,
                 stopPending, cancelled, stopCmd, submitIgnored, handlerVars, quotaVars, renderVars>>

BackendError(n) ==
  /\ backend[n].state = "streaming"
  /\ backend' = [backend EXCEPT ![n].state = "finished"]
  /\ Emit(Msg("error", n, 0))
  /\ UNCHANGED <<message, isLoading, response, error, historyLoads, submits,
                 stopPending, cancelled, stopCmd, submitIgnored, handlerVars, quotaVars, renderVars>>

\* the ask_ai_stream command fails before it streams anything
BackendReject(n) ==
  /\ backend[n].state = "streaming"
  /\ backend[n].sent = 0
  /\ backend' = [backend EXCEPT ![n].state = "finished"]
  /\ Emit(Msg("askRejected", n, 0))
  /\ UNCHANGED <<message, isLoading, response, error, historyLoads, submits,
                 stopPending, cancelled, stopCmd, submitIgnored, handlerVars, quotaVars, renderVars>>

\* the stop_streaming command is handled: it succeeds and the running streams
\* are asked to stop, or it fails and they go on
BackendStop ==
  /\ stopCmd
  /\ stopCmd' = FALSE
  /\ \E ok \in BOOLEAN :
       /\ backend' = [n \in Sessions |->
                        IF ok /\ backend[n].state = "streaming"
                          THEN [backend[n] EXCEPT !.state = "stopping"]
                          ELSE backend[n]]
       /\ Emit(Msg(IF ok THEN "stopResolved" ELSE "stopRejected", 0, 0))
  /\ UNCHANGED <<message, isLoading, response, error, historyLoads, submits,
                 stopPending, cancelled, submitIgnored, handlerVars, quotaVars, renderVars>>

\* a stream notices the stop request
BackendCancelled(n) ==
  /\ backend[n].state = "stopping"
  /\ backend' = [backend EXCEPT ![n].state = "finished"]
  /\ Emit(Msg("cancelled", n, 0))
  /\ UNCHANGED <<message, isLoading, response, error, historyLoads, submits,
                 stopPending, cancelled, stopCmd, submitIgnored, handlerVars, quotaVars, renderVars>>

\* ---- the webview receives the head of the channel ----
Receive(t) ==
  /\ channel # <<>>
  /\ Head(channel).type = t
  /\ channel' = Tail(channel)

\* listen("ai-response-chunk"): setResponse((prev) => prev + event.payload)
OnChunk ==
  /\ Receive("chunk")
  /\ response' = Append(response, <<Head(channel).sid, Head(channel).i>>)
  /\ UNCHANGED <<message, isLoading, error, historyLoads, submits, stopPending,
                 cancelled, backend, stopCmd, submitIgnored, handlerVars, quotaVars, renderVars>>

\* a done listener without loadConversationHistory()
OnDoneWithoutReload ==
  /\ Receive("done")
  /\ isLoading' = FALSE
  /\ message' = ""
  /\ UNCHANGED historyLoads
  /\ UNCHANGED <<response, error, submits, stopPending, cancelled, backend,
                 stopCmd, submitIgnored, handlerVars, quotaVars, renderVars>>

\* listen("ai-response-done")
OnDone ==
  /\ Receive("done")
  /\ isLoading' = FALSE
  /\ message' = ""
  /\ historyLoads' = historyLoads + 1
  /\ UNCHANGED <<response, error, submits, stopPending, cancelled, backend,
                 stopCmd, submitIgnored, handlerVars, quotaVars, renderVars>>

\* a listener that would start over on an error, as handleSubmit does
OnErrorEventClearingResponse ==
  /\ Receive("error")
  /\ error' = "stream error"
  /\ isLoading' = FALSE
  /\ response' = <<>>
  /\ UNCHANGED <<message, historyLoads, submits, stopPending,
                 cancelled, backend, stopCmd, submitIgnored, handlerVars, quotaVars, renderVars>>

\* listen("ai-response-error")
OnErrorEvent ==
  /\ Receive("error")
  /\ error' = "stream error"
  /\ isLoading' = FALSE
  /\ UNCHANGED <<message, response, historyLoads, submits, stopPending,
                 cancelled, backend, stopCmd, submitIgnored, handlerVars, quotaVars, renderVars>>

\* listen("ai-response-cancelled")
OnCancelled ==
  /\ Receive("cancelled")
  /\ isLoading' = FALSE
  /\ UNCHANGED <<message, response, error, historyLoads, submits, stopPending,
                 cancelled, backend, stopCmd, submitIgnored, handlerVars, quotaVars, renderVars>>

\* the catch of handleSubmit: invoke("ask_ai_stream") rejected
AskRejected ==
  /\ Receive("askRejected")
  /\ error' = "invoke error"
  /\ isLoading' = FALSE
  /\ UNCHANGED <<message, response, historyLoads, submits, stopPending,
                 cancelled, backend, stopCmd, submitIgnored, handlerVars, quotaVars, renderVars>>

\* a handleStop whose catch would only log
StopSettledOnSuccess ==
  /\ \/ Receive("stopResolved")
     \/ Receive("stopRejected")
  /\ isLoading' = IF Head(channel).type = "stopResolved" THEN FALSE ELSE isLoading
  /\ stopPending' = FALSE
  /\ cancelled' = [active |-> TRUE, buffer |-> response]
  /\ UNCHANGED <<message, response, error, historyLoads, submits, backend,
                 stopCmd, submitIgnored, handlerVars, quotaVars, renderVars>>

\* handleStop after its await: setIsLoading(false) in the try and in the catch
StopSettled ==
  /\ \/ Receive("stopResolved")
     \/ Receive("stopRejected")
  /\ isLoading' = FALSE
  /\ stopPending' = FALSE
  /\ cancelled' = [active |-> TRUE, buffer |-> response]
  /\ UNCHANGED <<message, response, error, historyLoads, submits, backend,
                 stopCmd, submitIgnored, handlerVars, quotaVars, renderVars>>

ClientInit ==
  /\ ClientIdle
  /\ HandlerIdle
  /\ QuotaIdle
  /\ RenderIdle

ClientNext ==
  \/ \E v \in Messages : SetMessage(v)
  \/ HandleSubmit
  \/ HandleStop
  \/ \E n \in Sessions : BackendChunk(n)
  \/ \E n \in Sessions : BackendDone(n)
  \/ \E n \in Sessions : BackendError(n)
  \/ \E n \in Sessions : BackendReject(n)
  \/ BackendStop
  \/ \E n \in Sessions : BackendCancelled(n)
  \/ OnChunk
  \/ OnDone
  \/ OnErrorEvent
  \/ OnCancelled
  \/ AskRejected
  \/ StopSettled

SpecClient == ClientInit /\ [][ClientNext]_vars

(***************************************************************************)
(* SpecRender: formatResponse and the two cleaning functions it calls.     *)
(* A text is a sequence of tokens.  A token is one character, the word     *)
(* null, the words Key Points, or the text of one JSON object, written     *)
(* without line breaks and named by what it holds.  The field values of    *)
(* the objects contain no quote and no backslash, so the text between the  *)
(* quotes is the value.                                                    *)
(***************************************************************************)
\* tokens of a raw text
MaxRawLen == 3

Whites == {" ", "\n"}            \* what \s matches
ZeroWidth == {"zwsp"}            \* U+200B, not matched by \s
Digits == {"5"}
Uppers == {"A"}
Lowers == {"a"}
Objects == {"{full}", "{comma}", "{nostatus}", "{points:string}"}

\* what a raw text is drawn from (a line break comes with the rendering)
RawTokens ==
  {" "} \cup ZeroWidth \cup Digits \cup Uppers \cup Lowers \cup Objects \cup
  {".", "%", "{", "}", "null"}

RawTexts == SeqsUpTo(RawTokens, MaxRawLen)

EndsDigit(tok) == tok \in Digits
StartsUpper(tok) == tok \in Uppers \cup {"Key Points"}
StartsLetter(tok) == tok \in Uppers \cup Lowers \cup {"null", "Key Points"}

\* the value JSON.parse gives for the text of an object; "" and a missing
\* field are both <<>>
PointsList(items) == [kind |-> "list", items |-> items]
PointsString(text) == [kind |-> "string", items |-> <<text>>]

ObjectValue(tok) ==
  CASE tok = "{full}" ->
         [type |-> "object", summary |-> <<"A">>, details |-> <<"5", "a">>,
          key_points |-> PointsList(<< <<"a">>, <<"A">> >>), status |-> <<"a">>]
    [] tok = "{comma}" ->
         [type |-> "object", summary |-> <<"A">>, details |-> <<"a">>,
          key_points |-> PointsList(<< <<"a", ",", "A">> >>), status |-> <<"a">>]
    [] tok = "{nostatus}" ->
         [type |-> "object", summary |-> <<"A">>, details |-> <<"a">>,
          key_points |-> PointsList(<< <<"a">> >>), status |-> <<>>]
    [] tok = "{points:string}" ->
         [type |-> "object", summary |-> <<"A">>, details |-> <<"a">>,
          key_points |-> PointsString(<<"a">>), status |-> <<"a">>]

\* the tokens of t at the positions K, in order
Pick(t, K) ==
  [n \in 1..Cardinality(K) |->
     t[CHOOSE i \in K : Cardinality({j \in K : j < i}) = n - 1]]

\* String.prototype.trim
Trim(t) ==
  LET inner == {i \in 1..Len(t) : t[i] \notin Whites}
  IN  IF inner = {} THEN <<>>
      ELSE SubSeq(t, CHOOSE i \in inner : \A j \in inner : i <= j,
                     CHOOSE i \in inner : \A j \in inner : j <= i)

\* normalizeStreamingText: zero-width characters become a space
NormalizeStreamingText(t) ==
  [i \in 1..Len(t) |-> IF t[i] \in ZeroWidth THEN " " ELSE t[i]]

\* .replace(/\$(\d+\.?\d*)/g, "$$$1"): in the replacement "$$" is a dollar
\* sign and "$1" the digits, so every match is replaced by itself
CurrencyFix(t) == t

\* .replace(/(\d+(?:\.\d+)?)\s*%/g, "$1%"): the white space between a digit
\* and a following % goes
PercentFix(t) ==
  LET left(i) == {j \in 1..(i - 1) : t[j] \notin Whites}
      right(i) == {j \in (i + 1)..Len(t) : t[j] \notin Whites}
      lastOf(S) == CHOOSE x \in S : \A y \in S : y <= x
      firstOf(S) == CHOOSE x \in S : \A y \in S : x <= y
      dropped(i) ==
        /\ t[i] \in Whites
        /\ left(i) # {}
        /\ right(i) # {}
        /\ EndsDigit(t[lastOf(left(i))])
        /\ t[firstOf(right(i))] = "%"
  IN  Pick(t, {i \in 1..Len(t) : ~dropped(i)})

\* .replace(/(\d+)([A-Za-z])/g, "$1 $2"): a space between a digit and a
\* letter that follows it
RECURSIVE DigitLetterFix(_)
DigitLetterFix(t) ==
  IF Len(t) < 2 THEN t
  ELSE IF EndsDigit(t[1]) /\ StartsLetter(t[2])
         THEN <<t[1], " ">> \o DigitLetterFix(Tail(t))
         ELSE <<t[1]>> \o DigitLetterFix(Tail(t))

\* .replace(/(\d+)\.(\d+)/g, "$1.$2"): every match is replaced by itself
DecimalFix(t) == t

\* .replace(/\s+/g, " "): a run of white space becomes one space
RECURSIVE CollapseSpaces(_)
CollapseSpaces(t) ==
  IF t = <<>> THEN t
  ELSE IF t[1] \in Whites
         THEN IF Len(t) >= 2 /\ t[2] \in Whites
                THEN CollapseSpaces(Tail(t))
                ELSE <<" ">> \o CollapseSpaces(Tail(t))
         ELSE <<t[1]>> \o CollapseSpaces(Tail(t))

\* .replace(/([.!?])([A-Z])/g, "$1 $2"): a space between the end of a
\* sentence and a capital that follows it
RECURSIVE SentenceFix(_)
SentenceFix(t) ==
  IF Len(t) < 2 THEN t
  ELSE IF t[1] = "." /\ StartsUpper(t[2])
         THEN <<t[1], " ">> \o SentenceFix(Tail(t))
         ELSE <<t[1]>> \o SentenceFix(Tail(t))

\* cleanCurrencyAndPercent
CleanCurrencyAndPercent(t) ==
  IF t = <<>> THEN t
  ELSE SentenceFix(CollapseSpaces(DecimalFix(DigitLetterFix(PercentFix(CurrencyFix(t))))))

\* cleanCurrencyAndPercent(normalizeStreamingText(text))
Cleaned(t) == CleanCurrencyAndPercent(NormalizeStreamingText(t))

\* ---- JSON.parse ----
PointsMissing == [kind |-> "missing", items |-> <<>>]

\* a parsed value that is not one of the objects, or the SyntaxError
Value(type) ==
  [type |-> type, summary |-> <<>>, details |-> <<>>,
   key_points |-> PointsMissing, status |-> <<>>]

\* a JSON number: -?5+(.5+)?
IsNumberText(u) ==
  LET v == IF u # <<>> /\ u[1] = "-" THEN Tail(u) ELSE u
  IN  /\ v # <<>>
      /\ \A i \in 1..Len(v) : v[i] \in Digits \cup {"."}
      /\ v[1] \in Digits
      /\ v[Len(v)] \in Digits
      /\ Cardinality({i \in 1..Len(v) : v[i] = "."}) <= 1

\* JSON.parse(text): white space around the value is allowed
JsonParse(t) ==
  LET u == Trim(t)
  IN  IF Len(u) = 1 /\ u[1] \in Objects THEN ObjectValue(u[1])
      ELSE IF u = <<"null">> THEN Value("null")
      ELSE IF IsNumberText(u) THEN Value("number")
      ELSE IF /\ Len(u) >= 2
              /\ u[1] = "{"
              /\ u[Len(u)] = "}"
              /\ \A i \in 2..(Len(u) - 1) : u[i] \in Whites
             THEN Value("object")
      ELSE Value("SyntaxError")

\* ---- formatResponse ----
OpensBrace(tok) == tok = "{" \/ tok \in Objects
ClosesBrace(tok) == tok = "}" \/ tok \in Objects

\* indexOf("{"), lastIndexOf("}"): the token's position, 0 for -1
JsonStart(t) ==
  LET at == {i \in 1..Len(t) : OpensBrace(t[i])}
  IN  IF at = {} THEN 0 ELSE CHOOSE i \in at : \A j \in at : i <= j

JsonEnd(t) ==
  LET at == {i \in 1..Len(t) : ClosesBrace(t[i])}
  IN  IF at = {} THEN 0 ELSE CHOOSE i \in at : \A j \in at : j <= i

\* resp is formatResponse's parameter `response`.
\* response.trim() and the substring from the first { to the last }
CleanResponse(resp) ==
  LET trimmed == Trim(resp)
      jsonStart == JsonStart(trimmed)
      jsonEnd == JsonEnd(trimmed)
  IN  IF /\ jsonStart # 0
         /\ jsonEnd # 0
         /\ \/ jsonEnd > jsonStart
            \/ (jsonEnd = jsonStart /\ trimmed[jsonStart] \in Objects)
        THEN SubSeq(trimmed, jsonStart, jsonEnd)
        ELSE trimmed

\* `- ${point}` joined with "\n"
RECURSIVE Bullets(_)
Bullets(points) ==
  IF points = <<>> THEN <<>>
  ELSE <<"-", " ">> \o Head(points) \o
       (IF Len(points) > 1 THEN <<"\n">> \o Bullets(Tail(points)) ELSE <<>>)

\* `## ${summary}\n\n${details}`
HeadingAndDetails(summary, details) ==
  <<"#", "#", " ">> \o summary \o <<"\n", "\n">> \o details

\* `\n\n### Key Points\n\n` and the bullets
KeyPointsSection(points) ==
  <<"\n", "\n", "#", "#", "#", " ", "Key Points", "\n", "\n">> \o Bullets(points)

Returned(text) == [how |-> "return", text |-> text]
Thrown == [how |-> "throw", text |-> <<>>]
FellThrough == [how |-> "fallthrough", text |-> <<>>]

\* the try block
TryBlock(resp) ==
  LET parsed == JsonParse(CleanResponse(resp))
  IN  IF parsed.type = "SyntaxError" THEN Thrown
      ELSE IF parsed.type = "null" THEN Thrown       \* parsed.summary of null
      ELSE IF /\ parsed.summary # <<>>
              /\ parsed.details # <<>>
              /\ parsed.key_points.kind # "missing"
              /\ parsed.status # <<>>
             THEN IF parsed.key_points.kind # "list"
                    THEN Thrown                       \* key_points.map is not a function
                    ELSE Returned(
                           HeadingAndDetails(Cleaned(parsed.summary), Cleaned(parsed.details))
                           \o KeyPointsSection(
                                [i \in 1..Len(parsed.key_points.items) |->
                                   Cleaned(parsed.key_points.items[i])]))
      ELSE FellThrough

TrimLeft(t) ==
  LET inner == {i \in 1..Len(t) : t[i] \notin Whites}
  IN  IF inner = {} THEN <<>>
      ELSE SubSeq(t, CHOOSE i \in inner : \A j \in inner : i <= j, Len(t))

TrimRight(t) ==
  LET inner == {i \in 1..Len(t) : t[i] \notin Whites}
  IN  IF inner = {} THEN <<>>
      ELSE SubSeq(t, 1, CHOOSE i \in inner : \A j \in inner : j <= i)

\* text.split(",")
RECURSIVE SplitAtCommas(_, _)
SplitAtCommas(t, cur) ==
  IF t = <<>> THEN <<cur>>
  ELSE IF Head(t) = "," THEN <<cur>> \o SplitAtCommas(Tail(t), <<>>)
  ELSE SplitAtCommas(Tail(t), Append(cur, Head(t)))

\* the pieces that split(",") makes of one quoted item, each after
\* point.trim().replace(/"/g, ""): the quotes keep the white space at the
\* beginning and at the end of the item from trim
ItemPieces(item) ==
  LET parts == SplitAtCommas(item, <<>>)
      n == Len(parts)
  IN  [k \in 1..n |->
         LET l == IF k > 1 THEN TrimLeft(parts[k]) ELSE parts[k]
         IN  IF k < n THEN TrimRight(l) ELSE l]

RECURSIVE PiecesOf(_)
PiecesOf(items) ==
  IF items = <<>> THEN <<>>
  ELSE ItemPieces(Head(items)) \o PiecesOf(Tail(items))

NonEmpty(t) == Len(t) > 0

\* the points that the catch block makes of the text between [ and ]
ExtractedPoints(items) ==
  LET kept == SelectSeq(PiecesOf(items), NonEmpty)
  IN  [i \in 1..Len(kept) |-> Cleaned(kept[i])]

\* the catch block: the three response.match calls find the first object
\* text with a non-empty string for "summary", for "details", and with a
\* list for "key_points"
CatchBlock(resp) ==
  LET First(S) == CHOOSE i \in S : \A j \in S : i <= j
      objs == {i \in 1..Len(resp) : resp[i] \in Objects}
      summaryMatch == {i \in objs : ObjectValue(resp[i]).summary # <<>>}
      detailsMatch == {i \in objs : ObjectValue(resp[i]).details # <<>>}
      keyPointsMatch == {i \in objs : ObjectValue(resp[i]).key_points.kind = "list"}
  IN  IF summaryMatch # {} /\ detailsMatch # {}
        THEN LET formatted ==
                   HeadingAndDetails(
                     Cleaned(ObjectValue(resp[First(summaryMatch)]).summary),
                     Cleaned(ObjectValue(resp[First(detailsMatch)]).details))
                 points ==
                   IF keyPointsMatch = {} THEN <<>>
                   ELSE ExtractedPoints(
                          ObjectValue(resp[First(keyPointsMatch)]).key_points.items)
             IN  Returned(IF Len(points) > 0
                            THEN formatted \o KeyPointsSection(points)
                            ELSE formatted)
        ELSE FellThrough

\* a try block without a catch block
TryWithoutCatch(resp) == TryBlock(resp)

\* a try/catch statement: the catch block runs when the try block throws
TryCatch(resp) ==
  IF TryBlock(resp).how = "throw" THEN CatchBlock(resp) ELSE TryBlock(resp)

\* formatResponse, with how the call ends
FormatResponseCall(resp) ==
  LET tc == TryCatch(resp)
  IN  IF tc.how = "fallthrough" THEN Returned(Cleaned(resp)) ELSE tc

\* formatResponse
FormatResponse(resp) == FormatResponseCall(resp).text

\* calls of formatResponse in a row
MaxRenders == 2

RenderInit ==
  /\ rawText \in RawTexts
  /\ display = <<>>
  /\ renders = 0
  /\ threw = FALSE
  /\ HandlerIdle
  /\ QuotaIdle
  /\ ClientIdle

RenderCall(resp) ==
  /\ ~threw
  /\ display' = FormatResponseCall(resp).text
  /\ threw' = (FormatResponseCall(resp).how = "throw")
  /\ renders' = renders + 1
  /\ UNCHANGED <<rawText, handlerVars, quotaVars, clientVars>>

\* formatResponse(response) on the raw text
FormatRaw ==
  /\ renders = 0
  /\ RenderCall(rawText)

\* formatResponse on what the call before returned
FormatAgain ==
  /\ renders > 0
  /\ renders < MaxRenders
  /\ RenderCall(display)

RenderNext ==
  \/ FormatRaw
  \/ FormatAgain

SpecRender == RenderInit /\ [][RenderNext]_vars

(***************************************************************************)
(* Properties.                                                             *)
(***************************************************************************)
IsTerminal(e) == e.type \in {"done", "error"}

\* the contents of the content chunks written, in order
RECURSIVE ChunkContents(_)
ChunkContents(w) ==
  IF w = <<>> THEN <<>>
  ELSE IF Head(w).type = "chunk" THEN <<Head(w).content>> \o ChunkContents(Tail(w))
  ELSE ChunkContents(Tail(w))

\* the handler has run to its end and no callback of it is pending
Settled == pc \in {"returned", "unhandled"}

\* C1: a request whose model or prompt is missing or empty is answered by the
\* handler with the 400 validation error, and no upstream call is made for it.
C1_InvalidBodyRejected ==
  (model \in {"undefined", ""} \/ prompt \in {"undefined", ""}) =>
    /\ upstreamCalls = 0
    /\ ~upstreamOpen
    /\ pc \in {"received", "returned"}
    /\ pc = "returned" =>
         /\ res.ended
         /\ res.status = 400
         /\ res.json = ErrorBody(MissingFieldsMsg, "none")
         /\ res.written = <<>>

C1_Witness ==
  /\ model = "m"
  /\ prompt = ""
  /\ apiKey
  /\ pc = "returned"
  /\ res.status = 400

\* C2: per limiter and key, within one window the first max requests are
\* admitted and every later one is denied, so at most max are admitted; the
\* log of a window that has elapsed is empty, so the next window admits max
\* requests again.
ClaimedLimit ==
  [general |-> GeneralMax, gemini |-> GeminiMax, perplexity |-> PerplexityMax]

C2_WindowAdmitsMax ==
  \A lim \in Limiters, k \in Keys :
    LET d == decisions[lim][k] IN
      /\ Len(d) = hits[lim][k]
      /\ \A i \in DOMAIN d : d[i] = (i <= ClaimedLimit[lim])
      /\ Cardinality({i \in DOMAIN d : d[i]}) <= ClaimedLimit[lim]

C2_Witness ==
  \E k \in Keys :
    /\ Len(decisions["general"][k]) = GeneralMax + 1
    /\ ~decisions["general"][k][GeneralMax + 1]
    /\ Len(decisions["perplexity"][k]) = PerplexityMax
    /\ decisions["perplexity"][k][PerplexityMax]

\* C3: a request enters the handler (and so can cause an upstream call) only
\* in a step in which the limiter of its route admits it, after the general
\* limiter admitted it; a request that either limiter denies is answered 429
\* by that limiter and causes no upstream call.
C3_Step ==
  /\ \A s \in Slots :
       /\ (slots[s].stage # "provider" /\ slots'[s].stage = "provider") =>
            LET k == slots'[s].key IN
              decisions'["general"][k] = Append(decisions["general"][k], TRUE)
       /\ (slots[s].stage = "provider" /\ slots'[s].stage # "provider") =>
            LET k == slots[s].key
                rt == slots[s].route
            IN  IF last'.by = "handler"
                  THEN decisions'[rt][k] = Append(decisions[rt][k], TRUE)
                  ELSE /\ decisions'[rt][k] = Append(decisions[rt][k], FALSE)
                       /\ last' = [status |-> 429, by |-> rt, upstream |-> FALSE]
  /\ \A k \in Keys :
       decisions'["general"][k] = Append(decisions["general"][k], FALSE) =>
         /\ last' = [status |-> 429, by |-> "general", upstream |-> FALSE]
         /\ slots' = slots
  /\ (\A s \in Slots : slots[s].stage = "provider" => slots'[s].stage = "provider") =>
       \/ last' = last
       \/ ~last'.upstream

C3_BothLimitersGuardHandler == [][C3_Step]_vars

C3_Witness ==
  /\ last = [status |-> 429, by |-> "perplexity", upstream |-> FALSE]
  /\ \E k \in Keys :
       /\ Len(decisions["perplexity"][k]) = PerplexityMax + 1
       /\ Len(decisions["general"][k]) = PerplexityMax + 1
       /\ decisions["general"][k][PerplexityMax + 1]

\* C4 (as claimed): for a streaming request that reached the adapter, a
\* terminal record ([DONE] or an error record) is the last record written,
\* there is at most one, and nothing is written or ended after res.end().
C4_SingleTerminalEvent ==
  (stream /\ upstreamCalls > 0) =>
    /\ res.late = 0
    /\ \A i \in DOMAIN res.written :
         IsTerminal(res.written[i]) => i = Len(res.written)
    /\ (res.ended /\ res.written # <<>>) => IsTerminal(res.written[Len(res.written)])

\* C5 (as claimed): a request that reached the adapter and whose handler has
\* run to its end has an ended response: in streaming mode one whose last
\* record is [DONE] or an error record, otherwise one JSON body.
C5_EveryRequestAnswered ==
  (upstreamCalls > 0 /\ Settled) =>
    /\ res.ended
    /\ IF stream
         THEN res.written # <<>> /\ IsTerminal(res.written[Len(res.written)])
         ELSE res.json # NoJson

\* C6 (as claimed): when the upstream call of a streaming request failed, the
\* response carries exactly one error record, and it is the last record.
C6_FailureGivesOneErrorEvent ==
  (stream /\ failure # "none" /\ Settled) =>
    /\ Cardinality({i \in DOMAIN res.written : res.written[i].type = "error"}) = 1
    /\ res.written[Len(res.written)].type = "error"

\* what the client is told went wrong: the error record of a stream, or the
\* error of the JSON body
ReportedError ==
  IF stream
    THEN IF res.written # <<>> /\ res.written[Len(res.written)].type = "error"
           THEN res.written[Len(res.written)].msg
           ELSE "none"
    ELSE res.json.error

\* C7 (as claimed): an upstream 429 is reported as rate limited, a 400 as a
\* bad request with detail, any other failure as request failed with detail,
\* in streaming and in non-streaming mode.
C7_UpstreamErrorKinds ==
  (failure # "none" /\ Settled) =>
    /\ failure = "429" => ReportedError = RateLimitedMsg(route)
    /\ failure = "400" => ReportedError = BadRequestMsg(route)
    /\ failure \in {"500", "timeout"} => ReportedError = RequestFailedMsg(route)
    /\ (~stream /\ failure # "429") => res.json.details # "none"

\* C8: on the Gemini route with simulated streaming, the chunk contents
\* written so far, concatenated in order, are a prefix of the upstream text;
\* every chunk is one token followed by one space, the last token without
\* one; and once [DONE] is written the concatenation is the whole text and
\* [DONE] is the last record.
IsPrefix(a, b) == Len(a) <= Len(b) /\ SubSeq(b, 1, Len(a)) = a

Spaces(t) == Cardinality({i \in DOMAIN t : t[i] = " "})

C8_ChunksConcatToText ==
  (route = "gemini" /\ index > 0) =>
    LET cs == ChunkContents(res.written)
        done == \E i \in DOMAIN res.written : res.written[i].type = "done"
    IN  /\ IsPrefix(Concat(cs), content)
        /\ Len(cs) = index
        /\ \A i \in DOMAIN cs :
             /\ \A j \in 1..(Len(cs[i]) - 1) : cs[i][j] # " "
             /\ (i <= Spaces(content)) <=> (cs[i] # <<>> /\ cs[i][Len(cs[i])] = " ")
        /\ done =>
             /\ Concat(cs) = content
             /\ Len(cs) = Spaces(content) + 1
             /\ res.written[Len(res.written)].type = "done"
             /\ res.ended
        /\ (~done) => ~res.ended

C8_Witness ==
  /\ route = "gemini"
  /\ content = <<"a", " ", " ">>
  /\ Len(res.written) = 4
  /\ res.written[4].type = "done"
  /\ res.ended

\* C9 (as claimed): once the caller has cancelled a stream in progress, no
\* further content chunk is produced, the upstream connection is released,
\* and the request does not end with [DONE] or an error record.
C9_CancelStopsStream ==
  ~clientConnected =>
    /\ chunksAfterClose = 0
    /\ Settled => ~upstreamOpen
    /\ \A i \in DOMAIN res.written : ~IsTerminal(res.written[i])

\* C10 (as claimed): after a local cancel the response buffer is the one the
\* client had when the cancel took effect, and the client is not loading:
\* chunk events that arrive later are discarded.
C10_NoChunkAfterLocalCancel ==
  cancelled.active => (response = cancelled.buffer /\ ~isLoading)

\* C11 (as claimed): a terminal signal of the current request (done, error,
\* cancelled, or the rejected invoke) that arrives when the request already
\* has its outcome (the client is no longer loading) changes nothing: it
\* neither sets an error nor completes the request a second time.
TerminalSignals == {"done", "error", "cancelled", "askRejected"}

C11_Step ==
  (/\ channel # <<>>
   /\ channel' = Tail(channel)
   /\ Head(channel).type \in TerminalSignals
   /\ Head(channel).sid = submits
   /\ ~isLoading)
  => UNCHANGED <<error, historyLoads, message, isLoading, response>>

C11_SingleOutcome == [][C11_Step]_vars

\* C12: when an error event is received, or the ask_ai_stream invoke rejects,
\* the client stops loading, the error is set, and the response buffer is
\* exactly what it was (the chunks received so far); it is not cleared.
FailureSignals == {"error", "askRejected"}

C12_Step ==
  (/\ channel # <<>>
   /\ channel' = Tail(channel)
   /\ Head(channel).type \in FailureSignals)
  => (/\ ~isLoading'
      /\ error' # ""
      /\ response' = response)

C12_ErrorKeepsBuffer == [][C12_Step]_vars

\* an error is shown next to a buffer that holds received chunks
C12_Witness ==
  /\ error = "stream error"
  /\ ~isLoading
  /\ response # <<>>
  /\ submits = 1

\* C13 (as claimed): at most one stream is running for the client at any time
\* (a submit during a stream starts no second one), and the response buffer
\* never holds chunks of two different streams.
Running(n) == backend[n].state \in {"streaming", "stopping"}

C13_OneStreamOneBuffer ==
  /\ Cardinality({n \in Sessions : Running(n)}) <= 1
  /\ \A i, j \in 1..Len(response) : response[i][1] = response[j][1]

\* C14 (as claimed): an event that belongs to an earlier request than the
\* current one (chunk, done, error or cancelled) leaves the buffer, the
\* loading flag, the error and the input message of the current request as
\* they are.
StreamSignals == {"chunk", "done", "error", "cancelled"}

C14_Step ==
  (/\ channel # <<>>
   /\ channel' = Tail(channel)
   /\ Head(channel).type \in StreamSignals
   /\ Head(channel).sid < submits)
  => UNCHANGED <<response, isLoading, error, message>>

C14_SignalsScopedToRequest == [][C14_Step]_vars

\* C15 (as claimed): no exception raised while a request is handled escapes
\* the handler as an unhandled rejection, and a request whose handling has
\* come to its end after an exception has an ended response.
C15_NoEscapedException ==
  /\ pc # "unhandled"
  /\ (failure # "none" /\ Settled) => res.ended

\* C16 (as claimed): while a client of some IP has used up its quota in a
\* limiter (its count in the running window has reached max), that limiter
\* admits no request of the same IP, whatever User-Agent the request sends.
Exhausted(lim, c) == hits[lim][KeyGenerator(c)] >= Max(lim)

C16_Step ==
  \A lim \in Limiters, c1, c2 \in Clients :
    (KeyByIp(c1) = KeyByIp(c2) /\ Exhausted(lim, c1)) =>
      decisions'[lim][KeyGenerator(c2)] # Append(decisions[lim][KeyGenerator(c2)], TRUE)

C16_QuotaPerIp == [][C16_Step]_vars

\* the lines of a callback in front of its first [DONE] line
FirstDone(lines) ==
  IF \E i \in 1..Len(lines) : lines[i].kind = "done"
    THEN CHOOSE i \in 1..Len(lines) :
           /\ lines[i].kind = "done"
           /\ \A j \in 1..(i - 1) : lines[j].kind # "done"
    ELSE Len(lines) + 1

BeforeDone(lines) == SubSeq(lines, 1, FirstDone(lines) - 1)

IsDelta(l) == l.kind = "delta"

\* one chunk event per delta line, in the order of the lines
DeltaEvents(lines) ==
  LET ds == SelectSeq(lines, IsDelta)
  IN  [i \in 1..Len(ds) |-> ChunkEvent(ds[i].content)]

\* C17: in the Perplexity stream a data record that is not valid JSON, or
\* that has no delta content, adds no event and does not stop the stream:
\* a 'data' callback on an open response appends exactly one chunk event per
\* delta record in front of the [DONE] line, in order, whatever other records
\* stand before or behind them, and ends the response only at a [DONE] line;
\* and when the upstream stream ends or fails the response is ended with a
\* terminal record.
C17_Step ==
  /\ (dataEvents' = dataEvents + 1 /\ ~res.ended) =>
       /\ res'.written =
            res.written \o DeltaEvents(BeforeDone(chunk')) \o
            (IF FirstDone(chunk') <= Len(chunk') THEN <<DoneEvent>> ELSE <<>>)
       /\ res'.ended <=> (FirstDone(chunk') <= Len(chunk'))
  /\ (pc = "piping" /\ pc' = "returned") =>
       /\ res'.ended
       /\ res'.written # <<>>
       /\ IsTerminal(res'.written[Len(res'.written)])

C17_MalformedRecordSkipped == [][C17_Step]_vars

\* a chunk was forwarded before a record that is not valid JSON and another
\* one behind it, and the stream ended with [DONE]
C17_Witness ==
  /\ pc = "returned"
  /\ dataEvents = 2
  /\ Len(chunk) = 2
  /\ chunk[1].kind = "badjson"
  /\ chunk[2].kind = "delta"
  /\ res.written = <<ChunkEvent(<<"a">>), ChunkEvent(<<"a">>), DoneEvent>>
  /\ res.ended
  /\ res.late = 0

\* the records that are complete once the lines of a callback have arrived:
\* the tail completes the delta record whose head ended the callback before
Reassembled(lines) ==
  [i \in 1..Len(lines) |->
     IF lines[i].kind = "tail"
       THEN [kind |-> "delta", content |-> lines[i].content]
       ELSE lines[i]]

\* C18 (as claimed): every delta record of the upstream stream gives exactly
\* one chunk event with its content, in upstream order, also when the record
\* arrives in two pieces, its head at the end of one 'data' callback and its
\* tail at the beginning of the next.
C18_Step ==
  (dataEvents' = dataEvents + 1 /\ ~res.ended) =>
    res'.written =
      res.written \o DeltaEvents(BeforeDone(Reassembled(chunk'))) \o
      (IF FirstDone(chunk') <= Len(chunk') THEN <<DoneEvent>> ELSE <<>>)

C18_OneChunkPerDelta == [][C18_Step]_vars

\* the Gemini upstream answered and its answer holds no text: there are no
\* candidates, or the text of the first candidate is missing or empty
GeminiGaveNoContent ==
  /\ route = "gemini"
  /\ upstreamCalls > 0
  /\ failure = "none"
  /\ pc \in {"sending", "returned"}
  /\ content = <<>>

\* C19 (as claimed): when the Gemini upstream returns no content, no content
\* chunk is written and the request ends with the "no response" error: as
\* the only record of a stream, or as the JSON body with status 500; it does
\* not end with [DONE] or a success body.
C19_EmptyContentIsError ==
  GeminiGaveNoContent =>
    /\ \A i \in DOMAIN res.written : res.written[i].type # "chunk"
    /\ pc = "returned" =>
         IF stream
           THEN res.written = <<ErrorEvent(NoResponseMsg(route))>>
           ELSE /\ res.status = 500
                /\ res.json = ErrorBody(NoResponseMsg(route), "none")

\* C20 (as claimed): once the response of a request has ended, and once the
\* handling of the request is over, its upstream connection is closed; and
\* a 'data' callback of the upstream stream is processed only while the
\* response is open and the caller connected.
C20_Step ==
  /\ res'.ended => ~upstreamOpen'
  /\ Settled' => ~upstreamOpen'
  /\ dataEvents' = dataEvents + 1 => (~res.ended /\ clientConnected)

C20_UpstreamClosedOnExit == [][C20_Step]_vars

\* C21 (as claimed): formatResponse applied to its own result returns that
\* result: every call after the first leaves the displayed text as it is.
C21_FormatIdempotent ==
  renders >= 2 => display = FormatResponse(rawText)

\* the objects with a non-empty summary, details and status and a non-empty
\* list of key points
FullObjects ==
  {o \in Objects :
     /\ ObjectValue(o).summary # <<>>
     /\ ObjectValue(o).details # <<>>
     /\ ObjectValue(o).status # <<>>
     /\ ObjectValue(o).key_points.kind = "list"
     /\ ObjectValue(o).key_points.items # <<>>}

\* heading, details, and one bullet per key point of the object, cleaned
Rendering(o) ==
  LET v == ObjectValue(o)
  IN  <<"#", "#", " ">> \o Cleaned(v.summary) \o <<"\n", "\n">> \o Cleaned(v.details)
      \o <<"\n", "\n", "#", "#", "#", " ", "Key Points", "\n", "\n">>
      \o Bullets([i \in 1..Len(v.key_points.items) |-> Cleaned(v.key_points.items[i])])

\* C22 (as claimed): for a raw text that contains one JSON object, with
\* non-empty summary, details, key points and status, formatResponse returns
\* the summary heading, the details, and the Key Points list with one bullet
\* per key point in the original order, and nothing else.
C22_StructuredRendering ==
  \A i \in 1..Len(rawText) :
    (/\ renders = 1
     /\ rawText[i] \in FullObjects
     /\ \A j \in 1..Len(rawText) : j # i => rawText[j] \notin Objects)
    => display = Rendering(rawText[i])

\* strict parsing or the field extraction gave a structure
StructureRecovered(resp) ==
  \/ TryBlock(resp).how = "return"
  \/ TryBlock(resp).how = "throw" /\ CatchBlock(resp).how = "return"

\* C23: formatResponse never throws, and when neither strict parsing nor the
\* field extraction recovers a structure, it returns the raw text with the
\* cosmetic cleanup applied: in particular every run of white space in it
\* is one space.
C23_NeverThrows ==
  /\ ~threw
  /\ (renders = 1 /\ ~StructureRecovered(rawText)) =>
       /\ display = Cleaned(rawText)
       /\ \A i \in 1..Len(display) :
            display[i] \in Whites =>
              /\ display[i] = " "
              /\ i > 1 => display[i - 1] \notin Whites

\* the word null parsed, reading its summary threw, nothing was extracted,
\* and the text came back with its white space collapsed
C23_Witness ==
  /\ renders = 1
  /\ rawText = <<"null", " ", " ">>
  /\ display = <<"null", " ">>
  /\ ~threw

\* C24: a submit with a non-blank message turns loading on and empties the
\* response buffer and the error; no event of the new request is on its way
\* at that moment, so none is processed before.
C24_Step ==
  submits' = submits + 1 =>
    /\ NonBlank(message)
    /\ isLoading'
    /\ response' = <<>>
    /\ error' = ""
    /\ \A i \in 1..Len(channel') : channel'[i].sid # submits'

C24_SubmitClearsSession == [][C24_Step]_vars

\* the second request has just been submitted; the first one had delivered
\* a chunk into the buffer
C24_Witness ==
  /\ submits = 2
  /\ isLoading
  /\ response = <<>>
  /\ error = ""
  /\ backend[1].state = "finished"
  /\ backend[1].sent > 0
  /\ backend[2] = [state |-> "streaming", sent |-> 0]
  /\ channel = <<>>

\* C25: when a done event is received the client stops loading, the buffer
\* stays as it is and the conversation history is reloaded once; no other
\* step (an error event, a cancelled event, a rejected invoke, a stop)
\* reloads the history.
DoneDelivered ==
  /\ channel # <<>>
  /\ channel' = Tail(channel)
  /\ Head(channel).type = "done"

C25_Step ==
  /\ DoneDelivered =>
       /\ ~isLoading'
       /\ response' = response
       /\ historyLoads' = historyLoads + 1
  /\ historyLoads' # historyLoads => DoneDelivered

C25_DoneReloadsHistory == [][C25_Step]_vars

\* the request completed with its chunk in the buffer and one reload
C25_Witness ==
  /\ submits = 1
  /\ backend[1].state = "finished"
  /\ channel = <<>>
  /\ historyLoads = 1
  /\ ~isLoading
  /\ response # <<>>
  /\ error = ""

\* C26 (as claimed): a cancelled event, which the client receives after it
\* has cancelled locally, changes neither the buffer nor the error, the
\* loading flag or the input message, whatever state the client is in when
\* the event arrives.
C26_Step ==
  (/\ channel # <<>>
   /\ channel' = Tail(channel)
   /\ Head(channel).type = "cancelled")
  => UNCHANGED <<response, error, isLoading, message>>

C26_CancelledIsNoOp == [][C26_Step]_vars

\* C27: the limiters count a request before the handler looks at it: the
\* step in which a request passes the general limiter raises the general
\* counter of its key, and the step in which it leaves the limiter of its
\* route raises that limiter's counter, also when the handler then answers
\* 400 or 500.
C27_Step ==
  \A s \in Slots :
    /\ (slots[s].stage # "provider" /\ slots'[s].stage = "provider") =>
         hits'["general"][slots'[s].key] = hits["general"][slots'[s].key] + 1
    /\ (slots[s].stage = "provider" /\ slots'[s].stage # "provider") =>
         LET lim == RouteLimiter(slots[s].route)
             k == slots[s].key
         IN  hits'[lim][k] = hits[lim][k] + 1

C27_ChargedBeforeValidation == [][C27_Step]_vars

\* a request that the handler rejected with 400 has been counted against the Gemini
\* quota of its key
C27_Witness ==
  /\ last = [status |-> 400, by |-> "handler", upstream |-> FALSE]
  /\ \E k \in Keys :
       /\ hits["gemini"][k] = 1
       /\ hits["perplexity"][k] = 0
       /\ hits["general"][k] = 1
       /\ \A k2 \in Keys \ {k} : \A lim \in Limiters : hits[lim][k2] = 0

\* C28: the general limiter runs in front of the limiter of the route.  A
\* step in which the general limiter denies a request of a key changes no
\* counter but the general one of that key and answers 429 from the general
\* limiter; a step in which a request passes the general limiter counts it
\* in the general counter of its key only, whichever route it is for; and
\* the step in which the limiter of the route decides, admitting or denying,
\* leaves the general counter as the arrival set it.
ProviderLimiters == Limiters \ {"general"}

GeneralDenies(k) ==
  decisions'["general"][k] = Append(decisions["general"][k], FALSE)

C28_Step ==
  /\ \A k \in Keys :
       GeneralDenies(k) =>
         /\ hits' = [hits EXCEPT !["general"][k] = @ + 1]
         /\ \A lim \in ProviderLimiters : decisions'[lim] = decisions[lim]
         /\ last' = [status |-> 429, by |-> "general", upstream |-> FALSE]
         /\ slots' = slots
  /\ \A s \in Slots :
       /\ (slots[s].stage # "provider" /\ slots'[s].stage = "provider") =>
            hits' = [hits EXCEPT !["general"][slots'[s].key] = @ + 1]
       /\ (slots[s].stage = "provider" /\ slots'[s].stage # "provider") =>
            /\ hits'["general"] = hits["general"]
            /\ decisions'["general"] = decisions["general"]

C28_GeneralLimiterFirst == [][C28_Step]_vars

\* requests to the Gemini route alone have used up the general quota of a
\* key: the limiter of the Gemini route denied one that the general limiter
\* had counted, and the general limiter then denies while the Perplexity
\* limiter has counted nothing
C28_Witness ==
  \E k \in Keys :
    /\ last = [status |-> 429, by |-> "general", upstream |-> FALSE]
    /\ hits["general"][k] = GeneralMax + 1
    /\ hits["perplexity"][k] = 0
    /\ hits["gemini"][k] = GeminiMax + 1
    /\ ~decisions["gemini"][k][GeminiMax + 1]
    /\ \A i \in 1..GeneralMax : decisions["general"][k][i]

\* C29: a handleSubmit whose message is empty or one blank changes nothing:
\* the step leaves isLoading, error, the response buffer, the history loads
\* and the message as they are, starts no request and sends the backend
\* nothing; and every step that starts a request is taken with a message
\* that has a character other than whitespace.
BlankMessages == {"", " "}

C29_Step ==
  /\ (~submitIgnored /\ submitIgnored') =>
       /\ message \in BlankMessages
       /\ UNCHANGED <<message, isLoading, error, response, historyLoads, submits,
                      stopPending, cancelled, backend, stopCmd, channel>>
  /\ (message \in BlankMessages) =>
       /\ submits' = submits
       /\ \A n \in Sessions : backend[n].state = "idle" => backend'[n].state = "idle"

C29_BlankSubmitIgnored == [][C29_Step]_vars

\* a submit of a blank message has been ignored: the one request that was
\* started has its chunks and its error on display, and no second request
\* has been started
C29_Witness ==
  /\ submitIgnored
  /\ message = " "
  /\ submits = 1
  /\ ~isLoading
  /\ response # <<>>
  /\ error = "stream error"
  /\ \A n \in Sessions : n > 1 => backend[n].state = "idle"

\* C30 as stated: handleStop leaves isLoading, the response buffer and the
\* error as they are when it is called, the step in which stop_streaming
\* settles (resolved or rejected) ends with isLoading false and the buffer
\* and the error unchanged, and for as long as the call has not settled the
\* client is loading and appends every chunk that arrives.
StopCalled == ~stopPending /\ stopPending'
StopSettles == stopPending /\ ~stopPending'
StopStillPending == stopPending /\ stopPending'

ChunkArrives ==
  /\ channel # <<>>
  /\ Head(channel).type = "chunk"
  /\ channel' = Tail(channel)

HandleStopEffect ==
  /\ StopCalled => /\ isLoading /\ isLoading'
                   /\ response' = response
                   /\ error' = error
  /\ StopSettles => /\ Head(channel).type \in {"stopResolved", "stopRejected"}
                    /\ ~isLoading'
                    /\ response' = response
                    /\ error' = error
  /\ (StopStillPending /\ ChunkArrives) =>
       response' = Append(response, <<Head(channel).sid, Head(channel).i>>)

C30_AsStated == [][HandleStopEffect /\ (stopPending' => isLoading')]_vars

\* C30, amended: as above, but while the call has not settled the loading
\* state can be ended by a listener or by the catch of handleSubmit: a
\* step that ends it while the call is still pending is the delivery of a
\* done, error or cancelled event or of a rejected ask_ai_stream.
EndsLoadingMeanwhile == {"done", "error", "cancelled", "askRejected"}

C30_Step ==
  /\ HandleStopEffect
  /\ (StopStillPending /\ isLoading /\ ~isLoading') =>
       /\ channel # <<>>
       /\ Head(channel).type \in EndsLoadingMeanwhile
       /\ channel' = Tail(channel)

C30_StopEndsLoading == [][C30_Step]_vars

\* a stop_streaming call that failed has settled: the stream is still
\* running in the backend, the client is no longer loading, and the chunks
\* it had appended are on display without an error
C30_Witness ==
  /\ submits = 1
  /\ backend[1].state = "streaming"
  /\ cancelled.active
  /\ ~stopPending
  /\ ~isLoading
  /\ response # <<>>
  /\ error = ""

====
